---- MODULE Spec2Model ----
(***************************************************************************)
(* Verification model of the conversation analyzer: the incremental        *)
(* ingestion pipeline with its import ledger (incremental_data_import.py)  *)
(* and the three text chunkers (incremental_data_import.py,                *)
(* src/ai/conversation_analyzer.py, src/utils/simple_chunker.py).          *)
(*                                                                         *)
(* Texts are strings over the alphabet { letter, '.', ' ' }.  A text is    *)
(* held as its length plus the sets of 0-based positions of its sentence   *)
(* terminators and of its whitespace; every other position is a letter.    *)
(* A slice text[a:b] is the half-open window [a, b).                       *)
(***************************************************************************)
EXTENDS Integers, Sequences, FiniteSets, TLC

VARIABLES
    pc,             \* position of the ingestion process
    cur,            \* process_folder's locals: folder, analysis, loop index
    counts,         \* processed/skipped/error counters of the running loop
    results,        \* process_folder's results: the two per-file reports
    history,        \* ImportTracker.history (the in-memory ledger)
    tracking_file,  \* import_history.json on disk
    collection,     \* the vector store collection: a set of documents
    last,           \* the last operation and what it reported
    epoch,          \* number of process restarts so far
    saved_folders,  \* folder names held by some completed save of the ledger
    orphaned,       \* record ids with chunks in the store at a crash, id not on disk
    ck,             \* state of the chunking loops
    cache,          \* the cache layer: the Redis store and the RedisCache object
    q,              \* the call in progress of the search side and its outcome
    search_engine   \* OptimizedSearchEngine: connection pool, lock, worker threads

vars == << pc, cur, counts, results, history, tracking_file, collection,
           last, epoch, saved_folders, orphaned, ck, cache, q, search_engine >>

ingestVars == << pc, cur, counts, results, history, tracking_file, collection,
                 last, epoch, saved_folders, orphaned >>

----------------------------------------------------------------------------
(* Bounds *)

MaxRestarts == 1

----------------------------------------------------------------------------
(* Helpers *)

Min(a, b) == IF a < b THEN a ELSE b

Max(a, b) == IF a > b THEN a ELSE b

SetMax(S) == CHOOSE x \in S : \A y \in S : y <= x

Range(s) == { s[i] : i \in 1..Len(s) }

\* The first position of text[a:b] that is not whitespace (b when none).
RECURSIVE LStrip(_, _, _)
LStrip(t, a, b) ==
    IF a < b /\ a \in t.spaces THEN LStrip(t, a + 1, b) ELSE a

\* The end of text[a:b] without its trailing whitespace (a when all of it is).
RECURSIVE RStrip(_, _, _)
RStrip(t, a, b) ==
    IF a < b /\ (b - 1) \in t.spaces THEN RStrip(t, a, b - 1) ELSE b

\* str.strip() of text[a:b]: the window without its leading and trailing
\* whitespace; an all-whitespace window strips to an empty window.
Strip(t, a, b) ==
    LET lo == LStrip(t, a, b)
    IN  [a |-> lo, b |-> RStrip(t, lo, b)]

\* not content.strip()
IsBlank(t) == LStrip(t, 0, t.len) = t.len

----------------------------------------------------------------------------
(* ConversationChunker.chunk_text of the ingestion pipeline *)

CHUNK_TEXT_SIZE == 1200

CHUNK_TEXT_OVERLAP == 200

CHUNK_TEXT_LOOKBACK == 1100

\* One iteration of the while loop: the cut and the next start.
ChunkTextStep(t, start) ==
    LET end0  == Min(start + CHUNK_TEXT_SIZE, t.len)
        lo    == Max(start + CHUNK_TEXT_LOOKBACK, start)
        cands == IF end0 < t.len
                 THEN { i \in t.dots : lo < i /\ i <= end0 }
                 ELSE {}
        end   == IF cands # {} THEN SetMax(cands) + 1 ELSE end0
    IN  [ start |-> start,
          end   |-> end,
          next  |-> IF end < t.len THEN end - CHUNK_TEXT_OVERLAP ELSE end ]

RECURSIVE ChunkTextLoop(_, _, _)
ChunkTextLoop(t, start, chunks) ==
    IF ~(start < t.len) THEN chunks
    ELSE LET s == ChunkTextStep(t, start)
             w == Strip(t, s.start, s.end)
         IN  ChunkTextLoop(t, s.next,
                           IF w.b > w.a THEN Append(chunks, w) ELSE chunks)

\* The list of chunks, each the window of the text it holds.
ChunkText(t) ==
    IF t.len <= CHUNK_TEXT_SIZE THEN << [a |-> 0, b |-> t.len] >>
    ELSE ChunkTextLoop(t, 0, << >>)

----------------------------------------------------------------------------
(* The export folders on disk (read-only input of the pipeline) *)

TextLong == [name |-> "long", len |-> 1500, dots |-> {}, spaces |-> {}]

TextShort == [name |-> "short", len |-> 300, dots |-> {299}, spaces |-> {}]

TextBlank == [name |-> "blank", len |-> 3, dots |-> {}, spaces |-> {0, 1, 2}]

ConvC1 ==
    [ uuid |-> "c1",
      chat_messages |-> << [uuid |-> "m1", created_at |-> "t1", text |-> TextLong],
                           [uuid |-> "m2", created_at |-> "t2", text |-> TextShort] >> ]

ConvC2 ==
    [ uuid |-> "c2",
      chat_messages |-> << [uuid |-> "m3", created_at |-> "t3", text |-> TextBlank],
                           [uuid |-> "m4", created_at |-> "t4", text |-> TextShort] >> ]

ConvNoUuid ==
    [ uuid |-> "",
      chat_messages |-> << [uuid |-> "m5", created_at |-> "t5", text |-> TextShort] >> ]

ProjP1 ==
    [ uuid |-> "p1",
      chat_conversations |->
          << [uuid |-> "pc1",
              chat_messages |-> << [uuid |-> "m6", created_at |-> "t6", text |-> TextShort] >>],
             [uuid |-> "pc2",
              chat_messages |-> << [uuid |-> "m7", created_at |-> "t7", text |-> TextShort] >>] >> ]

Folders == {"f1", "f2"}

\* has_projects / has_conversations: whether the folder holds the file.
FolderContents(f) ==
    IF f = "f1"
    THEN [ has_projects |-> TRUE,  projects |-> << ProjP1 >>,
           has_conversations |-> TRUE, conversations |-> << ConvC1, ConvNoUuid >> ]
    ELSE [ has_projects |-> FALSE, projects |-> << >>,
           has_conversations |-> TRUE, conversations |-> << ConvC1, ConvC2 >> ]

----------------------------------------------------------------------------
(* ImportTracker: the import ledger and its file *)

\* The default history of _load_history: its two id collections are sets.
EmptyHistory ==
    [ imports |-> {}, conversation_uuids |-> {}, project_uuids |-> {},
      kind |-> "set" ]

NoFile ==
    [ state |-> "absent", imports |-> {}, conversation_uuids |-> {},
      project_uuids |-> {} ]

\* A file that open(..., 'w') truncated and json.dump did not finish.
PartialFile ==
    [ state |-> "partial", imports |-> {}, conversation_uuids |-> {},
      project_uuids |-> {} ]

\* _save_history when the write completes: the sets are written as JSON lists.
SavedFile(h) ==
    [ state |-> "complete", imports |-> h.imports,
      conversation_uuids |-> h.conversation_uuids,
      project_uuids |-> h.project_uuids ]

\* _load_history: json.load hands the id collections back as lists; a missing
\* or unparsable file gives the default history.
LoadHistory(file) ==
    IF file.state = "complete"
    THEN [ imports |-> file.imports,
           conversation_uuids |-> file.conversation_uuids,
           project_uuids |-> file.project_uuids,
           kind |-> "list" ]
    ELSE EmptyHistory

IsFolderImported(f) == f \in history.imports

IsConversationImported(u) == u \in history.conversation_uuids

IsProjectImported(u) == u \in history.project_uuids

\* add_conversation_uuid / add_project_uuid call .add on the collection:
\* a set has it, a list loaded from JSON raises AttributeError.
UuidAddRaises(h) == h.kind # "set"

AddConversationUuid(h, u) ==
    [h EXCEPT !.conversation_uuids = @ \cup {u}]

AddProjectUuid(h, u) ==
    [h EXCEPT !.project_uuids = @ \cup {u}]

----------------------------------------------------------------------------
(* Chunks of a record and the vector store *)

\* A chunk id that differs from run to run (as an id drawn per process would).
ChunkIdPerRun(conversation_uuid, message_uuid, i) ==
    conversation_uuid \o "_" \o message_uuid \o "_" \o ToString(i)
        \o "_" \o ToString(epoch)

\* f"{conversation_uuid}_{message.get('uuid', '')}_{i}"
ChunkId(conversation_uuid, message_uuid, i) ==
    conversation_uuid \o "_" \o message_uuid \o "_" \o ToString(i)

\* The documents one message yields, in the order they are added.
MessageDocs(project_uuid, conversation_uuid, m) ==
    IF IsBlank(m.text) THEN << >>
    ELSE LET chunks == ChunkText(m.text)
         IN  [ i \in 1..Len(chunks) |->
                 [ id |-> ChunkId(conversation_uuid, m.uuid, i - 1),
                   project_uuid |-> project_uuid,
                   conversation_uuid |-> conversation_uuid,
                   message_created_at |-> m.created_at,
                   chunk_index |-> i - 1,
                   document |-> << m.text.name, chunks[i].a, chunks[i].b >> ] ]

RECURSIVE MessagesDocs(_, _, _)
MessagesDocs(project_uuid, conversation_uuid, messages) ==
    IF messages = << >> THEN << >>
    ELSE MessageDocs(project_uuid, conversation_uuid, Head(messages))
             \o MessagesDocs(project_uuid, conversation_uuid, Tail(messages))

\* The adds _process_single_conversation makes for a conversation record.
ConversationDocs(conversation) ==
    MessagesDocs("", conversation.uuid, conversation.chat_messages)

\* The adds _process_single_project makes for the j-th conversation of a project.
ProjectConversationDocs(project, j) ==
    MessagesDocs(project.uuid, project.chat_conversations[j].uuid,
                 project.chat_conversations[j].chat_messages)

\* collection.add(documents=[chunk], metadatas=[metadata], ids=[chunk_id]):
\* the store keeps one document per id.
CollectionAdd(store, doc) ==
    { d \in store : d.id # doc.id } \cup {doc}

RECURSIVE CollectionAddAll(_, _)
CollectionAddAll(store, docs) ==
    IF docs = << >> THEN store
    ELSE CollectionAddAll(CollectionAdd(store, Head(docs)), Tail(docs))

\* The adds of a project when the j-th conversation's loop raises after
\* ks[j] adds (ks[j] = all of them: it does not raise).
RECURSIVE ProjectWrites(_, _, _)
ProjectWrites(project, ks, j) ==
    IF j > Len(project.chat_conversations) THEN << >>
    ELSE SubSeq(ProjectConversationDocs(project, j), 1, ks[j])
             \o ProjectWrites(project, ks, j + 1)

\* The possible ks of a project.
ProjectFailurePoints(project) ==
    { ks \in [ 1..Len(project.chat_conversations) -> 0..2 ] :
        \A j \in 1..Len(project.chat_conversations) :
            ks[j] <= Len(ProjectConversationDocs(project, j)) }

ProjectAllWritten(project, ks) ==
    \A j \in 1..Len(project.chat_conversations) :
        ks[j] = Len(ProjectConversationDocs(project, j))

----------------------------------------------------------------------------
(* IncrementalClaudeDataProcessor *)

NoCounts == [processed |-> 0, skipped |-> 0, failed |-> 0]

NoReport == [done |-> FALSE, processed |-> 0, skipped |-> 0, failed |-> 0, n |-> 0]

NoResults == [projects_result |-> NoReport, conversations_result |-> NoReport]

NoCur ==
    [ folder |-> "", idx |-> 0, process_conversations |-> FALSE,
      was_imported |-> FALSE ]

NoLast ==
    [ op |-> "none", id |-> "", force |-> FALSE, dry |-> FALSE, result |-> "",
      known |-> FALSE, attempted |-> FALSE, wrote_all |-> FALSE, counted |-> {},
      new_records |-> 0 ]

\* Number of records of a file that carry an id the ledger does not hold.
CountNew(records, known) ==
    Cardinality({ i \in 1..Len(records) :
                    records[i].uuid # "" /\ records[i].uuid \notin known })

\* analyze_folder_contents: reads the two files and the ledger, writes nothing.
AnalyzeFolderContents(f) ==
    LET c == FolderContents(f)
    IN  [ projects_file       |-> c.has_projects,
          conversations_file  |-> c.has_conversations,
          total_projects      |-> Len(c.projects),
          total_conversations |-> Len(c.conversations),
          new_projects        |-> CountNew(c.projects, history.project_uuids),
          new_conversations   |-> CountNew(c.conversations,
                                           history.conversation_uuids) ]

\* process_folder's early return: "if not force_reimport and is_folder_imported".
SkipsFolderNever(f, force) == FALSE

SkipsFolder(f, force) == ~force /\ IsFolderImported(f)

\* process_folder's dry-run return: "if dry_run: return".
DryRunNever(dry) == FALSE

DryRunReturns(dry) == dry

\* process_folder from its entry to the first file loop (or to its return).
ProcessFolderBegin(f, force, dry) ==
    /\ pc = "idle"
    /\ UNCHANGED << epoch, saved_folders, orphaned, ck, cache, q, search_engine >>
    /\ IF SkipsFolder(f, force)
       THEN /\ last' = [NoLast EXCEPT !.op = "process_folder", !.id = f,
                            !.force = force, !.dry = dry, !.result = "skipped"]
            /\ UNCHANGED << pc, cur, counts, results, history, tracking_file,
                            collection >>
       ELSE LET a == AnalyzeFolderContents(f)
                doProjects == a.projects_file /\ a.new_projects > 0
                doConversations == a.conversations_file /\ a.new_conversations > 0
            IN  IF DryRunReturns(dry)
                THEN /\ last' = [NoLast EXCEPT !.op = "process_folder", !.id = f,
                                     !.force = force, !.dry = dry,
                                     !.result = "dry_run",
                                     !.new_records = a.new_projects
                                                       + a.new_conversations]
                     /\ UNCHANGED << pc, cur, counts, results, history,
                                     tracking_file, collection >>
                ELSE /\ last' = [NoLast EXCEPT !.op = "process_folder", !.id = f,
                                     !.force = force, !.dry = dry,
                                     !.result = "started",
                                     !.new_records = a.new_projects
                                                       + a.new_conversations]
                     /\ pc' = IF doProjects THEN "projects"
                              ELSE IF doConversations THEN "conversations"
                              ELSE "mark"
                     /\ cur' = [ folder |-> f, idx |-> 1,
                                 process_conversations |-> doConversations,
                                 was_imported |-> IsFolderImported(f) ]
                     /\ counts' = NoCounts
                     /\ results' = NoResults
                     /\ UNCHANGED << history, tracking_file, collection >>

Report(c, n) ==
    [ done |-> TRUE, processed |-> c.processed, skipped |-> c.skipped,
      failed |-> c.failed, n |-> n ]

\* One iteration of the loop of process_projects_incremental, with the whole
\* of _process_single_project; after the last record, the report is returned.
ProcessProjectsStep ==
    /\ pc = "projects"
    /\ LET records == FolderContents(cur.folder).projects
           project == records[cur.idx]
           atEnd   == cur.idx = Len(records)
       IN
       /\ \E ks \in ProjectFailurePoints(project) :
            LET known   == IsProjectImported(project.uuid)
                noId    == project.uuid = ""
                attempt == ~noId /\ ~known
                raises  == attempt /\ UuidAddRaises(history)
                counted == IF noId THEN {}
                           ELSE IF known THEN {"skipped"}
                           ELSE IF raises THEN {"processed", "failed"}
                           ELSE {"processed"}
                c2 == [ processed |-> counts.processed
                                        + (IF "processed" \in counted THEN 1 ELSE 0),
                        skipped   |-> counts.skipped
                                        + (IF "skipped" \in counted THEN 1 ELSE 0),
                        failed    |-> counts.failed
                                        + (IF "failed" \in counted THEN 1 ELSE 0) ]
            IN
            /\ attempt \/ ProjectAllWritten(project, ks)
            /\ collection' = IF attempt
                             THEN CollectionAddAll(collection,
                                                   ProjectWrites(project, ks, 1))
                             ELSE collection
            /\ history' = IF attempt /\ ~raises
                          THEN AddProjectUuid(history, project.uuid)
                          ELSE history
            /\ last' = [NoLast EXCEPT !.op = "project", !.id = project.uuid,
                            !.known = known, !.attempted = attempt,
                            !.wrote_all = attempt /\ ProjectAllWritten(project, ks),
                            !.counted = counted]
            /\ IF atEnd
               THEN /\ results' = [results EXCEPT
                                     !.projects_result = Report(c2, Len(records))]
                    /\ counts' = NoCounts
                    /\ cur' = [cur EXCEPT !.idx = 1]
                    /\ pc' = IF cur.process_conversations THEN "conversations"
                             ELSE "mark"
               ELSE /\ counts' = c2
                    /\ cur' = [cur EXCEPT !.idx = @ + 1]
                    /\ UNCHANGED << results, pc >>
    /\ UNCHANGED << tracking_file, epoch, saved_folders, orphaned, ck, cache, q, search_engine >>

\* One iteration of the loop of process_conversations_incremental, with the
\* whole of _process_single_conversation: the add after the first k raises
\* (k = all of them: none raises).
ProcessConversationsStep ==
    /\ pc = "conversations"
    /\ LET records      == FolderContents(cur.folder).conversations
           conversation == records[cur.idx]
           atEnd        == cur.idx = Len(records)
           docs         == ConversationDocs(conversation)
       IN
       /\ \E k \in 0..Len(docs) :
            LET known   == IsConversationImported(conversation.uuid)
                noId    == conversation.uuid = ""
                attempt == ~noId /\ ~known
                success == attempt /\ k = Len(docs)
                raises  == success /\ UuidAddRaises(history)
                counted == IF noId THEN {}
                           ELSE IF known THEN {"skipped"}
                           ELSE IF ~success THEN {"failed"}
                           ELSE IF raises THEN {"processed", "failed"}
                           ELSE {"processed"}
                c2 == [ processed |-> counts.processed
                                        + (IF "processed" \in counted THEN 1 ELSE 0),
                        skipped   |-> counts.skipped
                                        + (IF "skipped" \in counted THEN 1 ELSE 0),
                        failed    |-> counts.failed
                                        + (IF "failed" \in counted THEN 1 ELSE 0) ]
            IN
            /\ attempt \/ k = Len(docs)
            /\ collection' = IF attempt
                             THEN CollectionAddAll(collection, SubSeq(docs, 1, k))
                             ELSE collection
            /\ history' = IF success /\ ~raises
                          THEN AddConversationUuid(history, conversation.uuid)
                          ELSE history
            /\ last' = [NoLast EXCEPT !.op = "conversation",
                            !.id = conversation.uuid,
                            !.known = known, !.attempted = attempt,
                            !.wrote_all = success, !.counted = counted]
            /\ IF atEnd
               THEN /\ results' = [results EXCEPT
                                     !.conversations_result = Report(c2, Len(records))]
                    /\ counts' = NoCounts
                    /\ cur' = [cur EXCEPT !.idx = 1]
                    /\ pc' = "mark"
               ELSE /\ counts' = c2
                    /\ cur' = [cur EXCEPT !.idx = @ + 1]
                    /\ UNCHANGED << results, pc >>
    /\ UNCHANGED << tracking_file, epoch, saved_folders, orphaned, ck, cache, q, search_engine >>

\* _save_history as the code writes it: open(tracking_file, 'w') truncates the
\* file in place and json.dump then writes into it; an interrupted write
\* leaves the truncated or half-written file behind.
InterruptedSave(file) == PartialFile

\* The end of process_folder: mark_folder_imported(folder_name, metadata),
\* which saves the ledger; an exception of the save is caught and printed.
MarkFolderImported ==
    /\ pc = "mark"
    /\ LET h == [history EXCEPT !.imports = @ \cup {cur.folder}]
       IN  /\ history' = h
           /\ \/ /\ tracking_file' = SavedFile(h)
                 /\ saved_folders' = saved_folders \cup h.imports
                 /\ last' = [NoLast EXCEPT !.op = "mark", !.id = cur.folder,
                                 !.result = "saved"]
              \/ /\ tracking_file' \in {tracking_file, InterruptedSave(tracking_file)}
                 /\ saved_folders' = saved_folders
                 /\ last' = [NoLast EXCEPT !.op = "mark", !.id = cur.folder,
                                 !.result = "save_failed"]
    /\ pc' = "idle"
    /\ cur' = NoCur
    /\ counts' = NoCounts
    /\ results' = NoResults
    /\ UNCHANGED << collection, epoch, orphaned, ck, cache, q, search_engine >>

\* Ids of records that have documents in the store and are not in the file.
Orphans(store, file) ==
    ({ d.conversation_uuid : d \in { e \in store : e.project_uuid = "" } }
        \ file.conversation_uuids)
    \cup
    ({ d.project_uuid : d \in { e \in store : e.project_uuid # "" } }
        \ file.project_uuids)

\* What a process that dies leaves: the store and the file; memory is lost.
Down(store, file) ==
    /\ pc' = "down"
    /\ cur' = NoCur
    /\ counts' = NoCounts
    /\ results' = NoResults
    /\ history' = EmptyHistory
    /\ collection' = store
    /\ tracking_file' = file
    /\ orphaned' = Orphans(store, file)
    /\ UNCHANGED << epoch, saved_folders, ck, cache, q, search_engine >>

\* The process ends (or is killed) between two steps.
Crash ==
    /\ pc # "down"
    /\ epoch < MaxRestarts
    /\ last' = [NoLast EXCEPT !.op = "crash", !.id = cur.folder,
                    !.known = cur.was_imported]
    /\ Down(collection, tracking_file)

\* The process is killed inside _process_single_conversation or
\* _process_single_project, after m of the record's adds.
CrashDuringRecord ==
    /\ pc \in {"projects", "conversations"}
    /\ epoch < MaxRestarts
    /\ last' = [NoLast EXCEPT !.op = "crash", !.id = cur.folder,
                    !.known = cur.was_imported]
    /\ IF pc = "conversations"
       THEN LET conversation == FolderContents(cur.folder).conversations[cur.idx]
                docs == ConversationDocs(conversation)
            IN  /\ conversation.uuid # ""
                /\ ~IsConversationImported(conversation.uuid)
                /\ \E m \in 1..Len(docs) :
                     Down(CollectionAddAll(collection, SubSeq(docs, 1, m)),
                          tracking_file)
       ELSE LET project == FolderContents(cur.folder).projects[cur.idx]
            IN  /\ project.uuid # ""
                /\ ~IsProjectImported(project.uuid)
                /\ \E ks \in ProjectFailurePoints(project) :
                     LET w == ProjectWrites(project, ks, 1)
                     IN  \E m \in 1..Len(w) :
                           Down(CollectionAddAll(collection, SubSeq(w, 1, m)),
                                tracking_file)

\* The process is killed inside _save_history, between open() and the end of
\* json.dump.
CrashDuringSave ==
    /\ pc = "mark"
    /\ epoch < MaxRestarts
    /\ last' = [NoLast EXCEPT !.op = "crash", !.id = cur.folder,
                    !.known = cur.was_imported, !.result = "in_save"]
    /\ Down(collection, InterruptedSave(tracking_file))

\* A new process: ImportTracker.__init__ loads the ledger file.
Restart ==
    /\ pc = "down"
    /\ pc' = "idle"
    /\ history' = LoadHistory(tracking_file)
    /\ epoch' = epoch + 1
    /\ last' = [last EXCEPT !.op = "restart"]
    /\ UNCHANGED << cur, counts, results, tracking_file, collection,
                    saved_folders, orphaned, ck, cache, q, search_engine >>

\* No RedisCache object yet, an empty Redis store.  first holds, for each
\* entry, the value that the call which stored it returned; invalidated holds
\* the keys that were in the store at the last invalidate_search_cache().
NoCache ==
    [ is_available |-> FALSE, reachable |-> FALSE, store |-> << >>,
      first |-> << >>, invalidated |-> {}, computes |-> 0, pc |-> "off" ]

\* No call on the search side.
NoQ == [ op |-> "none" ]

\* An engine after __init__: an empty _connection_pool, a free _lock, no
\* worker thread; created counts the connections made so far (connection 0
\* is self.collection, the main one), handed holds the (connection, thread)
\* pairs that _get_connection has returned to the workers of the batch,
\* calls counts the batch_search calls; lock is the thread that holds
\* _lock, 0 when free.
NoEngine ==
    [ pool |-> << >>, lock |-> 0, threads |-> << >>, created |-> 0,
      handed |-> {}, calls |-> 0 ]

NoCk ==
    [ algo |-> "none", text |-> [len |-> 0, dots |-> {}, spaces |-> {}],
      size |-> 0, overlap |-> 0, start |-> 0, prev |-> -1, windows |-> << >>,
      pc |-> "off" ]

Init ==
    /\ pc = "idle"
    /\ cur = NoCur
    /\ counts = NoCounts
    /\ results = NoResults
    /\ history = EmptyHistory
    /\ tracking_file = NoFile
    /\ collection = {}
    /\ last = NoLast
    /\ epoch = 0
    /\ saved_folders = {}
    /\ orphaned = {}
    /\ ck = NoCk
    /\ cache = NoCache
    /\ q = NoQ
    /\ search_engine = NoEngine

Next ==
    \/ \E f \in Folders, force \in BOOLEAN, dry \in BOOLEAN :
         ProcessFolderBegin(f, force, dry)
    \/ ProcessProjectsStep
    \/ ProcessConversationsStep
    \/ MarkFolderImported
    \/ Crash
    \/ CrashDuringRecord
    \/ CrashDuringSave
    \/ Restart

Spec == Init /\ [][Next]_vars

----------------------------------------------------------------------------
(* The chunking loops, one iteration per step *)

MaxTextLen == 6

MaxChunkSize == 4

SPLIT_LOOKBACK == 100

SIMPLE_LOOKBACK == 100

\* Every text of exactly n characters over { letter, '.', ' ' }.
TextsOfLen(n) ==
    { [len |-> n, dots |-> d, spaces |-> s] :
        << d, s >> \in { p \in (SUBSET (0..(n - 1))) \X (SUBSET (0..(n - 1))) :
                           p[1] \cap p[2] = {} } }

SmallTexts == UNION { TextsOfLen(n) : n \in 0..MaxTextLen }

\* Texts around the 1200-character window of chunk_text.
LongTexts ==
    UNION { { [len |-> n, dots |-> d, spaces |-> s] :
                d \in SUBSET { x \in {1100, 1101, 1199, 1200, 1201} : x < n },
                s \in SUBSET { x \in {0, 1198, 1202} : x < n } } :
            n \in {1200, 1201, 1202, 1400, 2500} }

\* ConversationChunker._split_text_with_overlap: the sentence break of the
\* window text[start:start+size], searched from its last character backwards.
SplitBestBreak(t, start, size) ==
    LET cands == { i \in (Max(0, size - SPLIT_LOOKBACK) + 1)..(size - 1) :
                     (start + i) \in t.dots }
    IN  IF cands # {} THEN start + SetMax(cands) + 1 ELSE start + size

\* The next start without the forward clamp.
SplitNextStartNoClamp(start, best_break, overlap) == best_break - overlap

\* start = max(start + self.overlap_size, best_break - self.overlap_size)
SplitNextStart(start, best_break, overlap) ==
    Max(start + overlap, best_break - overlap)

\* SimpleChunker._chunk_conversation: the cut of the window that starts at start.
SimpleEnd(t, start, size) ==
    LET end0  == Min(start + size, t.len)
        cands == IF end0 < t.len
                 THEN { i \in (Max(start + size - SIMPLE_LOOKBACK, start) + 1)..end0 :
                          i \in t.dots }
                 ELSE {}
    IN  IF cands # {} THEN SetMax(cands) + 1 ELSE end0

\* start = max(start + self.chunk_size - self.overlap, end)
SimpleNextStart(start, end, size, overlap) == Max(start + size - overlap, end)

\* A call of one of the three chunkers on a text.
ChunkCall(algo, t, size, overlap) ==
    [ algo |-> algo, text |-> t, size |-> size, overlap |-> overlap,
      start |-> 0, prev |-> -1, windows |-> << >>,
      pc |-> "call" ]

\* The early return of _split_text_with_overlap and of chunk_text (the text,
\* unstripped, as the only chunk), or the entry into the while loop.
ChunkEnter ==
    /\ ck.pc = "call"
    /\ LET limit == IF ck.algo = "chunk_text" THEN CHUNK_TEXT_SIZE ELSE ck.size
       IN  IF ck.algo # "simple" /\ ck.text.len <= limit
           THEN ck' = [ck EXCEPT !.windows = << [a |-> 0, b |-> ck.text.len] >>,
                                 !.pc = "returned_whole"]
           ELSE ck' = [ck EXCEPT !.pc = IF 0 < ck.text.len THEN "loop" ELSE "done"]
    /\ UNCHANGED << ingestVars, cache, q, search_engine >>

\* One iteration of the while loop of _split_text_with_overlap.
SplitStep ==
    /\ ck.pc = "loop"
    /\ ck.algo = "split"
    /\ LET end == ck.start + ck.size
           bb  == SplitBestBreak(ck.text, ck.start, ck.size)
           nxt == SplitNextStart(ck.start, bb, ck.overlap)
       IN  IF end >= ck.text.len
           THEN ck' = [ck EXCEPT
                         !.windows = Append(@, [a |-> ck.start, b |-> ck.text.len]),
                         !.pc = "done"]
           ELSE ck' = [ck EXCEPT
                         !.windows = Append(@, [a |-> ck.start, b |-> bb]),
                         !.prev = ck.start,
                         !.start = nxt,
                         !.pc = IF nxt < ck.text.len THEN "loop" ELSE "done"]
    /\ UNCHANGED << ingestVars, cache, q, search_engine >>

\* One iteration of the while loop of SimpleChunker._chunk_conversation.
SimpleStep ==
    /\ ck.pc = "loop"
    /\ ck.algo = "simple"
    /\ LET end == SimpleEnd(ck.text, ck.start, ck.size)
           nxt == SimpleNextStart(ck.start, end, ck.size, ck.overlap)
       IN  ck' = [ck EXCEPT
                    !.windows = Append(@, [a |-> ck.start, b |-> end]),
                    !.prev = ck.start,
                    !.start = nxt,
                    !.pc = IF nxt < ck.text.len THEN "loop" ELSE "done"]
    /\ UNCHANGED << ingestVars, cache, q, search_engine >>

\* One iteration of the while loop of the pipeline's chunk_text.
ChunkTextLoopStep ==
    /\ ck.pc = "loop"
    /\ ck.algo = "chunk_text"
    /\ LET s == ChunkTextStep(ck.text, ck.start)
       IN  ck' = [ck EXCEPT
                    !.windows = Append(@, [a |-> s.start, b |-> s.end]),
                    !.prev = ck.start,
                    !.start = s.next,
                    !.pc = IF s.next < ck.text.len THEN "loop" ELSE "done"]
    /\ UNCHANGED << ingestVars, cache, q, search_engine >>

\* The list a chunker returns: every window stripped, the empty ones dropped
\* (the early return hands back the text as it is).
RECURSIVE StripAll(_, _)
StripAll(t, windows) ==
    IF windows = << >> THEN << >>
    ELSE LET w == Strip(t, Head(windows).a, Head(windows).b)
         IN  (IF w.b > w.a THEN << w >> ELSE << >>) \o StripAll(t, Tail(windows))

Chunks ==
    IF ck.pc = "returned_whole" THEN ck.windows ELSE StripAll(ck.text, ck.windows)

Returned == ck.pc \in {"done", "returned_whole"}

InitChunk ==
    /\ pc = "idle"
    /\ cur = NoCur
    /\ counts = NoCounts
    /\ results = NoResults
    /\ history = EmptyHistory
    /\ tracking_file = NoFile
    /\ collection = {}
    /\ last = NoLast
    /\ epoch = 0
    /\ saved_folders = {}
    /\ orphaned = {}
    /\ cache = NoCache
    /\ q = NoQ
    /\ search_engine = NoEngine
    /\ \/ \E algo \in {"split", "simple"}, t \in SmallTexts,
             size \in 1..MaxChunkSize :
             \E overlap \in 0..(size - 1) :
                ck = ChunkCall(algo, t, size, overlap)
       \/ \E t \in LongTexts :
             ck = ChunkCall("chunk_text", t, CHUNK_TEXT_SIZE, CHUNK_TEXT_OVERLAP)

NextChunk ==
    \/ ChunkEnter
    \/ SplitStep
    \/ SimpleStep
    \/ ChunkTextLoopStep

\* A chunker that was called runs on: its loop is not suspended.
SpecChunk == InitChunk /\ [][NextChunk]_vars /\ WF_vars(NextChunk)

----------------------------------------------------------------------------
(* ConversationCategorizer of src/ai/conversation_analyzer.py *)

\* self.categories, in declaration order.
CATEGORIES ==
    << [ name |-> "legal_compliance",
         keywords |-> << "ada", "compliance", "violation",
                         "formal notice", "legal", "lawsuit",
                         "discrimination", "pip",
                         "performance improvement", "employment",
                         "accommodation", "disability", "notice",
                         "regulation", "fsrao", "ifrs", "audit",
                         "regulatory" >> ],
       [ name |-> "business_analysis",
         keywords |-> << "requirements", "business", "analysis",
                         "specification", "process", "workflow",
                         "stakeholder", "client", "documentation",
                         "fintech", "ccm", "integration", "sow",
                         "statement of work", "estimate", "proposal",
                         "architecture" >> ],
       [ name |-> "technical_development",
         keywords |-> << "code", "api", "database", "sql", "python",
                         "script", "development", "programming", "vba",
                         "automation", "etl", "oracle", "integration",
                         "technical", "devops", "deployment",
                         "migration", "data model", "ingestion",
                         "flat file" >> ],
       [ name |-> "data_analytics",
         keywords |-> << "data", "analytics", "reporting", "cube",
                         "warehouse", "bi", "business intelligence",
                         "metrics", "analysis", "query", "table",
                         "column", "entity", "ifrs", "central 1",
                         "loan data", "summarization" >> ],
       [ name |-> "communication",
         keywords |-> << "email", "letter", "correspondence",
                         "communication", "reply", "response",
                         "meeting", "discussion", "chat",
                         "conversation", "ticket", "update",
                         "client communication" >> ],
       [ name |-> "research_strategy",
         keywords |-> << "research", "strategy", "analysis",
                         "investigation", "assessment", "evaluation",
                         "planning", "approach", "methodology",
                         "study", "learning arc" >> ],
       [ name |-> "project_management",
         keywords |-> << "project", "management", "timeline",
                         "milestone", "task", "deliverable", "handoff",
                         "planning", "coordination", "tracking",
                         "estimate", "hours", "ticket", "status",
                         "workflow" >> ],
       [ name |-> "ai_assistance",
         keywords |-> << "claude", "ai", "assistant", "prompt",
                         "structured", "magic approach", "help me",
                         "organize", "draft", "generate", "analysis" >> ] >>

\* The keywords k of the table with len(k.split()) > 1.
MultiWordKeywords ==
    { "business intelligence", "central 1", "client communication",
      "data model", "flat file", "formal notice", "help me",
      "learning arc", "loan data", "magic approach",
      "performance improvement", "statement of work" }

\* The words and phrases the texts of the model are made of; a text is the
\* set of them it holds, joined by single blanks.
Tokens ==
    { "learning arc", "reply", "letter", "formal notice", "code",
      "data model", "zebra", "analysis", "help me", "task", "project",
      "prompt" }

MaxTokens == 3

CategorizerTexts == { t \in SUBSET Tokens : Cardinality(t) <= MaxTokens }

\* The keywords of the table that occur in a token as a substring.
TokenKeywords(token) ==
    CASE token = "formal notice" -> { "formal notice", "notice" }
      [] token = "data model"    -> { "data model", "data" }
      [] token = "zebra"         -> {}
      [] OTHER                   -> { token }

\* "keyword in combined_text"
KeywordIn(keyword, text) == \E token \in text : keyword \in TokenKeywords(token)

\* The score of one category: one for each keyword found, plus the bonus of
\* two for each found keyword of more than one word.
CategoryScore(keywords, text) ==
    Cardinality({ i \in 1..Len(keywords) : KeywordIn(keywords[i], text) })
    + 2 * Cardinality({ i \in 1..Len(keywords) :
                          /\ keywords[i] \in MultiWordKeywords
                          /\ KeywordIn(keywords[i], text) })

\* max(category_scores, key=category_scores.get): the first category, in
\* declaration order, that has the highest score.
FirstMax(score) ==
    CHOOSE i \in DOMAIN score :
        /\ \A j \in DOMAIN score : score[j] <= score[i]
        /\ \A j \in DOMAIN score : j < i => score[j] < score[i]

Categorize(text) ==
    LET category_scores ==
            [ i \in 1..Len(CATEGORIES) |-> CategoryScore(CATEGORIES[i].keywords, text) ]
    IN  IF \A i \in DOMAIN category_scores : category_scores[i] = 0
        THEN "general"
        ELSE CATEGORIES[FirstMax(category_scores)].name

----------------------------------------------------------------------------
(* The categorizer of the ingestion pipeline and the category filter values *)

\* ConversationCategorizer.categorize_content of incremental_data_import.py.
CategorizeContent(text) ==
    IF \E keyword \in { "function", "code", "python", "javascript", "sql",
                        "api", "database", "script" } : KeywordIn(keyword, text)
    THEN "programming"
    ELSE IF \E keyword \in { "budget", "integration", "ticket", "project",
                             "sow", "requirement" } : KeywordIn(keyword, text)
    THEN "business_analysis"
    ELSE IF \E keyword \in { "claude", "ai assistant", "prompt",
                             "optimization" } : KeywordIn(keyword, text)
    THEN "ai_assistance"
    ELSE "general"

\* get_filter_options()['categories']
FilterCategories ==
    { "legal_compliance", "business_analysis", "technical_development",
      "data_analytics", "communication", "research_strategy",
      "project_management", "ai_assistance", "general" }

\* The enum of the claude_search tool's category property.
ToolCategoryEnum ==
    { "legal_compliance", "business_analysis", "technical_development",
      "data_analytics", "communication", "research_strategy",
      "project_management", "ai_assistance", "general" }

----------------------------------------------------------------------------
(* OptimizedSearchEngine.search of src/search/optimized_search.py *)
(* Scores are fixed-point: distances, similarities and recency multipliers  *)
(* in tenths (1.0 is 10), final scores and thresholds in hundredths.        *)

MaxDocs == 3

QUERY_CAP == 50

EXPANSION_LIMIT == 3

RECENT_WEEK_DAYS == 7

RECENT_MONTH_DAYS == 30

RECENT_QUARTER_DAYS == 90

\* calculate_recency_boost; created_at is empty (not given) or a date, held
\* as its age in days.
CalculateRecencyBoost(created_at) ==
    IF ~created_at.given THEN 10
    ELSE IF created_at.days <= RECENT_WEEK_DAYS THEN 15
    ELSE IF created_at.days <= RECENT_MONTH_DAYS THEN 12
    ELSE IF created_at.days <= RECENT_QUARTER_DAYS THEN 10
    ELSE 9

\* expand_business_query: the query, then the query with each synonym of a
\* vocabulary entry it names ("leverage" has five).
ExpandBusinessQuery(query) ==
    IF query = "leverage"
    THEN << query, "leverage utilize", "leverage capitalize on",
            "leverage employ strategically", "leverage take advantage of",
            "leverage maximize" >>
    ELSE << query >>

\* search_queries of search(): the query, then expanded_queries[:3].
SearchQueries(query, enable_business_expansion) ==
    IF enable_business_expansion
    THEN LET expanded_queries == ExpandBusinessQuery(query)
         IN  << query >> \o SubSeq(expanded_queries, 1,
                                   Min(EXPANSION_LIMIT, Len(expanded_queries)))
    ELSE << query >>

\* collection.query(n_results=n): the n nearest candidates, nearest first.
CollectionQuery(store, n) == SubSeq(store, 1, Min(n, Len(store)))

\* The candidate lists of the variants, in order, without the empty ones and
\* without those of the variants in skip.
RECURSIVE AllResults(_, _, _, _)
AllResults(store, n_results, variants, skip) ==
    IF variants = {} THEN << >>
    ELSE LET v == CHOOSE x \in variants : \A y \in variants : x <= y
             search_result == CollectionQuery(store, Min(n_results * 2, QUERY_CAP))
             rest == AllResults(store, n_results, variants \ {v}, skip)
         IN  IF v \in skip \/ search_result = << >> THEN rest
             ELSE << search_result >> \o rest

RECURSIVE Flatten(_)
Flatten(lists) ==
    IF lists = << >> THEN << >> ELSE Head(lists) \o Flatten(Tail(lists))

\* _merge_search_results: candidates in order of arrival, one per document
\* key, until max_results * 2 of them are merged.
RECURSIVE MergeLoop(_, _, _)
MergeLoop(todo, merged, max_results) ==
    IF todo = << >> THEN merged
    ELSE IF \E i \in 1..Len(merged) : merged[i].doc = Head(todo).doc
         THEN MergeLoop(Tail(todo), merged, max_results)
         ELSE LET m == Append(merged, Head(todo))
              IN  IF Len(m) >= max_results * 2 THEN m
                  ELSE MergeLoop(Tail(todo), m, max_results)

MergeSearchResults(all_results, max_results) ==
    MergeLoop(Flatten(all_results), << >>, max_results)

\* list.sort(key=relevance_score, reverse=True): stable, highest score first.
RECURSIVE InsertByScore(_, _)
InsertByScore(sorted, r) ==
    IF sorted = << >> THEN << r >>
    ELSE IF Head(sorted).relevance_score >= r.relevance_score
         THEN << Head(sorted) >> \o InsertByScore(Tail(sorted), r)
         ELSE << r >> \o sorted

RECURSIVE SortByScore(_)
SortByScore(s) ==
    IF s = << >> THEN << >>
    ELSE InsertByScore(SortByScore(SubSeq(s, 1, Len(s) - 1)), s[Len(s)])

\* The SearchResult of one candidate.
ProcessOne(c, enable_recency_boost) ==
    LET similarity_score == 10 - c.distance
        final_score == IF enable_recency_boost /\ c.created_at.given
                       THEN similarity_score * CalculateRecencyBoost(c.created_at)
                       ELSE similarity_score * 10
    IN  [ content |-> c.doc, created_at |-> c.created_at,
          relevance_score |-> final_score ]

\* _process_search_results
ProcessSearchResults(merged, similarity_threshold, enable_recency_boost) ==
    LET all == [ i \in 1..Len(merged) |-> ProcessOne(merged[i], enable_recency_boost) ]
        kept == SelectSeq(all, LAMBDA r : ~(r.relevance_score < similarity_threshold))
    IN  SortByScore(kept)

\* The results search() builds from the variants that are not in skip;
\* threshold, expand and boost are similarity_threshold,
\* enable_business_expansion and enable_recency_boost.
SearchResultsOf(store, query, n_results, threshold, expand, boost, skip) ==
    LET search_queries == SearchQueries(query, expand)
        all_results == AllResults(store, n_results, DOMAIN search_queries, skip)
    IN  ProcessSearchResults(MergeSearchResults(all_results, n_results),
                             threshold, boost)

\* OptimizedSearchEngine.search; failing is the set of variants whose
\* collection.query raises.  One try block holds the whole body: any raise
\* ends in the error dict.
OptimizedSearch(store, query, n_results, threshold, expand, boost, failing) ==
    LET search_queries == SearchQueries(query, expand)
    IN  IF failing \cap DOMAIN search_queries # {}
        THEN [ results |-> << >>, total_results |-> 0, error |-> TRUE ]
        ELSE LET processed_results ==
                     SearchResultsOf(store, query, n_results, threshold,
                                     expand, boost, {})
             IN  [ results |-> processed_results,
                   total_results |-> Len(processed_results), error |-> FALSE ]

\* The candidates of the model: document i of a store, with its metadata's
\* created_at and its distance to the query.
DocNames == << "d1", "d2", "d3", "d4" >>

CreatedAts ==
    { [given |-> FALSE, days |-> 0], [given |-> TRUE, days |-> 3],
      [given |-> TRUE, days |-> 200] }

Distances == { 2, 15 }

\* The stores: up to MaxDocs candidates, nearest first.
SearchStores ==
    UNION { { s \in [ 1..k -> [ doc : {"d1", "d2", "d3", "d4"},
                               created_at : CreatedAts,
                               distance : Distances ] ] :
                /\ \A i \in 1..k : s[i].doc = DocNames[i]
                /\ \A i \in 1..(k - 1) : s[i].distance <= s[i + 1].distance } :
            k \in 0..MaxDocs }

\* engine.search(query, n_results, similarity_threshold=..., ...) with the
\* store in some state and some of its queries failing.
OptimizedSearchCall ==
    /\ q = NoQ
    /\ \E store \in SearchStores, query \in {"alpha", "leverage"},
          n_results \in {1, 2}, similarity_threshold \in {-100, 0, 50},
          expand \in BOOLEAN, boost \in BOOLEAN, failing \in {{}, {1}, {3}} :
         q' = [ op |-> "search", store |-> store, query |-> query,
                n_results |-> n_results,
                enable_recency_boost |-> boost,
                variants |-> Len(SearchQueries(query, expand)),
                failing |-> failing \cap DOMAIN SearchQueries(query, expand),
                partial |-> SearchResultsOf(store, query, n_results,
                                            similarity_threshold, expand, boost,
                                            failing),
                out |-> OptimizedSearch(store, query, n_results,
                                        similarity_threshold, expand, boost,
                                        failing) ]
    /\ UNCHANGED << ingestVars, ck, cache, search_engine >>

----------------------------------------------------------------------------
(* UnifiedSearchEngine.search_unified and the claude_search tool *)

MaxStoreDocs == 52

MAX_TOOL_RESULTS == 50

\* self.collections, in the order of collection_configs.
CollectionNames == << "claude_project_chats", "claude_conversation_chats" >>

\* A collection of k chunks as a query sees it: nearest first, chunk i at
\* distance i.
UnifiedCollection(name, k) ==
    [ i \in 1..k |-> [ chunk_id |-> << name, i >>, distance |-> i, rank |-> 0 ] ]

\* results.sort(key=lambda x: x.distance): stable, nearest first.
SortByDistance(s) ==
    LET pos(i) == 1 + Cardinality({ j \in 1..Len(s) :
                                      \/ s[j].distance < s[i].distance
                                      \/ (s[j].distance = s[i].distance /\ j < i) })
    IN  [ p \in 1..Len(s) |-> s[CHOOSE i \in 1..Len(s) : pos(i) = p] ]

\* UnifiedSearchEngine._aggregate_results
AggregateResults(all_results, n_results) ==
    IF all_results = << >> THEN << >>
    ELSE LET sorted == SortByDistance(all_results)
             ranked == [ i \in 1..Len(sorted) |-> [sorted[i] EXCEPT !.rank = i] ]
         IN  SubSeq(ranked, 1, Min(n_results, Len(ranked)))

\* The candidates search_unified collects: per collection, in order, the
\* n_results nearest chunks; a collection whose query raises (it is in
\* failing, or n_results is not positive, which the store rejects) is left
\* out by the except branch of its loop iteration.
RECURSIVE CollectAll(_, _, _, _)
CollectAll(sizes, n_results, failing, i) ==
    IF i > Len(CollectionNames) THEN << >>
    ELSE LET rest == CollectAll(sizes, n_results, failing, i + 1)
         IN  IF i \in failing \/ n_results <= 0 THEN rest
             ELSE CollectionQuery(UnifiedCollection(CollectionNames[i], sizes[i]),
                                  n_results) \o rest

\* UnifiedSearchEngine.search_unified, without filters.
SearchUnified(sizes, n_results, failing) ==
    AggregateResults(CollectAll(sizes, n_results, failing, 1), n_results)

\* The n_results the tool's entry path hands to search_conversations:
\* claude_search clamps it, handle_call_tool passes the argument on.
EntryNResults(path, n_results) ==
    IF path = "claude_search"
    THEN Min(Max(n_results, 1), MAX_TOOL_RESULTS)
    ELSE n_results

\* A claude_search tool call on one of its two entry paths.
ClaudeSearchCall ==
    /\ q = NoQ
    /\ \E path \in {"claude_search", "handle_call_tool"},
          n_requested \in {-1, 0, 1, 2, 50, 51, 100},
          sizes \in { << 0, 0 >>, << 2, 1 >>, << MaxStoreDocs, 0 >>,
                      << MaxStoreDocs \div 2, MaxStoreDocs \div 2 >> },
          failing \in { {}, {1}, {2} } :
         LET n_results == EntryNResults(path, n_requested)
             search_results == SearchUnified(sizes, n_results, failing)
         IN  q' = [ op |-> "claude_search", path |-> path,
                    n_requested |-> n_requested, n_results |-> n_results,
                    sizes |-> sizes, failing |-> failing,
                    variants |-> Len(CollectionNames),
                    partial |-> search_results,
                    out |-> [ results |-> search_results,
                              total_results |-> Len(search_results),
                              error |-> FALSE ] ]
    /\ UNCHANGED << ingestVars, ck, cache, search_engine >>

----------------------------------------------------------------------------
(* The search side, one call per step *)

\* ConversationCategorizer.categorize(text) with an empty conversation name.
CategorizeCall ==
    /\ q = NoQ
    /\ \E text \in CategorizerTexts :
         q' = [ op |-> "categorize", text |-> text, out |-> Categorize(text) ]
    /\ UNCHANGED << ingestVars, ck, cache, search_engine >>

\* The ingestion pipeline labels a chunk: metadata['category'].
CategorizeContentCall ==
    /\ q = NoQ
    /\ \E text \in CategorizerTexts :
         q' = [ op |-> "categorize_content", text |-> text,
                out |-> CategorizeContent(text) ]
    /\ UNCHANGED << ingestVars, ck, cache, search_engine >>

\* The caller has taken the value of the call.
ReturnToCaller ==
    /\ q # NoQ
    /\ q' = NoQ
    /\ UNCHANGED << ingestVars, ck, cache, search_engine >>

InitSearch ==
    /\ pc = "idle"
    /\ cur = NoCur
    /\ counts = NoCounts
    /\ results = NoResults
    /\ history = EmptyHistory
    /\ tracking_file = NoFile
    /\ collection = {}
    /\ last = NoLast
    /\ epoch = 0
    /\ saved_folders = {}
    /\ orphaned = {}
    /\ ck = NoCk
    /\ cache = NoCache
    /\ q = NoQ
    /\ search_engine = NoEngine

NextSearch ==
    \/ CategorizeCall
    \/ CategorizeContentCall
    \/ OptimizedSearchCall
    \/ ClaudeSearchCall
    \/ ReturnToCaller

SpecSearch == InitSearch /\ [][NextSearch]_vars

----------------------------------------------------------------------------
(* The cache layer of src/utils/redis_cache.py around OptimizedSearchEngine *)

MaxCalls == 2

DEFAULT_N_RESULTS == 10

\* Two engine objects built with the same configuration.
Engines == {"engine1", "engine2"}

Queries == {"alpha", "beta"}

\* How the caller passes n_results: search(q, 10), search(q, n_results=10),
\* search(q).
CallForms == {"positional", "keyword", "default"}

None == [type |-> "None"]

\* str() of an object without __repr__: its class and its address, which no
\* two live objects share.
StrOfObject(engine) ==
    [type |-> "object", class |-> "OptimizedSearchEngine", at |-> engine]

\* The (*args, **kwargs) the wrapper receives for a call engine.search(...).
WrapperArgs(engine, form, query) ==
    CASE form = "positional" ->
           [ args |-> << StrOfObject(engine), query, DEFAULT_N_RESULTS >>,
             kwargs |-> << >> ]
      [] form = "keyword" ->
           [ args |-> << StrOfObject(engine), query >>,
             kwargs |-> << << "n_results", DEFAULT_N_RESULTS >> >> ]
      [] OTHER ->
           [ args |-> << StrOfObject(engine), query >>, kwargs |-> << >> ]

\* RedisCache._generate_key: "claude_api:" followed by the md5 hex digest of
\* "prefix:str(args):str(sorted(kwargs.items()))".  The digest is held as the
\* data it was taken of (no two data of the model collide); its text is 32
\* characters of HexAlphabet.
GenerateKey(prefix, args, kwargs) ==
    [ namespace |-> "claude_api:",
      md5 |-> [prefix |-> prefix, args |-> args, kwargs |-> kwargs] ]

HexAlphabet ==
    { "0", "1", "2", "3", "4", "5", "6", "7", "8", "9", "a", "b", "c", "d",
      "e", "f" }

\* The letters of the literal word of a glob pattern "claude_api:*word*".
PatternWordLetters(word) ==
    IF word = "search" THEN {"s", "e", "a", "r", "c", "h"}
    ELSE {"s", "t", "a"}

\* redis KEYS pattern: a key matches "claude_api:*word*" when it starts with
\* the namespace and the word occurs in the rest, which for a generated key
\* is a hex digest: a word with a letter outside the hex alphabet occurs in
\* none.
KeyMatches(key, word) ==
    /\ key.namespace = "claude_api:"
    /\ PatternWordLetters(word) \subseteq HexAlphabet

\* json.dumps(value, default=str): dicts, lists, strings and numbers are
\* written as they are, a SearchResult object is written as the string str()
\* gives for it.
JsonDumps(value) ==
    [ json |-> [ value EXCEPT !.results =
                   { [type |-> "str", content |-> r.content] : r \in value.results } ] ]

\* json.loads
JsonLoads(text) == text.json

\* OptimizedSearchEngine.search as the wrapper sees it: a dict whose "results"
\* are SearchResult objects, one per matching document of the collection.
Search(coll, query) ==
    [ results |-> { [type |-> "SearchResult", content |-> d.id] : d \in coll },
      query |-> query,
      total_results |-> Cardinality(coll) ]

\* The except branch of OptimizedSearchEngine.search: the error dict, with an
\* empty result list.
SearchError(query) ==
    [ results |-> {}, query |-> query, total_results |-> 0, error |-> TRUE ]

\* RedisCache.get
CacheGet(c, key) ==
    IF ~c.is_available THEN None
    ELSE IF ~c.reachable THEN None
    ELSE IF key \in DOMAIN c.store THEN JsonLoads(c.store[key])
    ELSE None

\* RedisCache.set: "stored", "skipped" when the cache is not available, or
\* the exception that leaves it.  A Redis error inside the try reaches
\* "except (redis.RedisError, json.JSONEncodeError)", whose evaluation raises
\* AttributeError because the json module has no JSONEncodeError.
CacheSetOutcome(c) ==
    IF ~c.is_available THEN "skipped"
    ELSE IF ~c.reachable THEN "AttributeError"
    ELSE "stored"

\* A function with one more (or one replaced) entry.
Put(f, k, v) == [ x \in DOMAIN f \cup {k} |-> IF x = k THEN v ELSE f[x] ]

\* A function without the entries of a set of keys.
Drop(f, ks) == [ x \in DOMAIN f \ ks |-> f[x] ]

\* cache = RedisCache(): ping decides is_available.
CacheConstruct ==
    /\ cache.pc = "off"
    /\ cache' = [cache EXCEPT !.pc = "up", !.is_available = cache.reachable]
    /\ UNCHANGED << ingestVars, ck, q, search_engine >>

\* The Redis server becomes unreachable, or reachable again.
RedisFails ==
    /\ cache.pc = "up"
    /\ cache.reachable
    /\ cache' = [cache EXCEPT !.reachable = FALSE]
    /\ UNCHANGED << ingestVars, ck, q, search_engine >>

RedisRecovers ==
    /\ cache.pc = "up"
    /\ ~cache.reachable
    /\ cache' = [cache EXCEPT !.reachable = TRUE]
    /\ UNCHANGED << ingestVars, ck, q, search_engine >>

\* The TTL of an entry runs out.
Expire ==
    /\ \E key \in DOMAIN cache.store :
         cache' = [cache EXCEPT !.store = Drop(cache.store, {key}),
                                !.first = Drop(cache.first, {key})]
    /\ UNCHANGED << ingestVars, ck, q, search_engine >>

\* Ingestion adds the chunks of a conversation to the collection.
StoreIngest ==
    /\ \E conversation \in {ConvC2} :
         collection' = CollectionAddAll(collection, ConversationDocs(conversation))
    /\ collection' # collection
    /\ UNCHANGED << pc, cur, counts, results, history, tracking_file, last,
                    epoch, saved_folders, orphaned, ck, cache, q, search_engine >>

\* engine.search(...) through the cached_search wrapper; raises tells whether
\* the store query of this call raises.
CachedSearchCall ==
    /\ cache.pc = "up"
    /\ \E engine \in Engines, form \in CallForms, query \in Queries,
          raises \in BOOLEAN :
         LET a == WrapperArgs(engine, form, query)
             cache_key == GenerateKey("search:search", a.args, a.kwargs)
             cached_result == CacheGet(cache, cache_key)
             result == IF raises THEN SearchError(query)
                       ELSE Search(collection, query)
             outcome == CacheSetOutcome(cache)
             call == [ op |-> "cached_search", engine |-> engine, form |-> form,
                       query |-> query, key |-> cache_key,
                       hit |-> FALSE, computed |-> FALSE, raised |-> "none",
                       value |-> None, fresh |-> result,
                       after_invalidate |-> cache_key \in cache.invalidated ]
         IN  IF cached_result # None
             THEN /\ q' = [call EXCEPT !.hit = TRUE, !.value = cached_result]
                  /\ UNCHANGED cache
             ELSE /\ cache.computes < MaxCalls
                  /\ q' = IF outcome = "AttributeError"
                          THEN [call EXCEPT !.computed = TRUE, !.raised = outcome]
                          ELSE [call EXCEPT !.computed = TRUE, !.value = result]
                  /\ cache' =
                       IF outcome = "stored"
                       THEN [cache EXCEPT
                               !.computes = @ + 1,
                               !.store = Put(@, cache_key, JsonDumps(result)),
                               !.first = Put(@, cache_key, result),
                               !.invalidated = @ \ {cache_key}]
                       ELSE [cache EXCEPT !.computes = @ + 1]
    /\ UNCHANGED << ingestVars, ck, search_engine >>

\* invalidate_search_cache(): clear_pattern("claude_api:*search*").
InvalidateSearchCache ==
    /\ cache.pc = "up"
    /\ LET keys == IF cache.is_available /\ cache.reachable
                   THEN { k \in DOMAIN cache.store : KeyMatches(k, "search") }
                   ELSE {}
       IN  cache' = [cache EXCEPT !.store = Drop(@, keys),
                                  !.first = Drop(@, keys),
                                  !.invalidated =
                                      IF cache.is_available /\ cache.reachable
                                      THEN DOMAIN cache.store ELSE {}]
    /\ q' = [op |-> "invalidate_search_cache"]
    /\ UNCHANGED << ingestVars, ck, search_engine >>

InitCache ==
    /\ pc = "idle"
    /\ cur = NoCur
    /\ counts = NoCounts
    /\ results = NoResults
    /\ history = EmptyHistory
    /\ tracking_file = NoFile
    /\ collection = {}
    /\ last = NoLast
    /\ epoch = 0
    /\ saved_folders = {}
    /\ orphaned = {}
    /\ ck = NoCk
    /\ \E up \in BOOLEAN : cache = [NoCache EXCEPT !.reachable = up]
    /\ q = NoQ
    /\ search_engine = NoEngine

NextCache ==
    \/ CacheConstruct
    \/ RedisFails
    \/ RedisRecovers
    \/ Expire
    \/ StoreIngest
    \/ CachedSearchCall
    \/ InvalidateSearchCache

SpecCache == InitCache /\ [][NextCache]_vars

----------------------------------------------------------------------------
(* ConversationReconstructor of src/ai/conversation_reconstructor.py *)

MaxChunks == 3

\* ' '.join(content_parts)
RECURSIVE JoinSpace(_)
JoinSpace(content_parts) ==
    IF content_parts = << >> THEN ""
    ELSE IF Len(content_parts) = 1 THEN content_parts[1]
    ELSE content_parts[1] \o " " \o JoinSpace(Tail(content_parts))

\* list.sort(key=...): stable, smallest key first.
StableSortBy(s, Key(_)) ==
    LET pos(i) == 1 + Cardinality({ j \in 1..Len(s) :
                                      \/ Key(s[j]) < Key(s[i])
                                      \/ (Key(s[j]) = Key(s[i]) /\ j < i) })
    IN  [ p \in 1..Len(s) |-> s[CHOOSE i \in 1..Len(s) : pos(i) = p] ]

\* A chunk as the reconstructor reads it: the document and the metadata keys
\* it looks at; message_uuid "" is a chunk whose metadata has no message_uuid.
StoredChunk(doc, message_uuid, message_index, chunk_index, sender, category) ==
    [ document |-> doc, conversation_uuid |-> "c1", message_uuid |-> message_uuid,
      message_index |-> message_index, chunk_index |-> chunk_index,
      message_sender |-> sender, message_created_at |-> "t" \o message_uuid,
      category |-> category ]

\* The chunks a collection can hold for conversation "c1": message m1 in two
\* chunks with an attachment chunk (chunk_index restarts at 0, sender
\* "attachment", the category of the attachment's text), messages m2 and m3
\* with the same message_index, and a chunk without message_uuid.
ChunkUniverse ==
    { StoredChunk("a", "m1", 0, 0, "human", "general"),
      StoredChunk("b", "m1", 0, 1, "human", "general"),
      StoredChunk("t", "m1", 0, 0, "attachment", "technical_development"),
      StoredChunk("c", "m2", 1, 0, "assistant", "general"),
      StoredChunk("d", "m3", 1, 0, "human", "communication"),
      StoredChunk("n", "", 0, 0, "human", "general") }

\* The orders in which a store can return the chunks of a set.
Orders(S) ==
    { s \in [ 1..Cardinality(S) -> S ] :
        \A i, j \in 1..Cardinality(S) : i # j => s[i] # s[j] }

\* The for loop over zip(documents, metadatas): the chunks that carry a
\* message_uuid, in the order returned.
Grouped(chunks) == SelectSeq(chunks, LAMBDA c : c.message_uuid # "")

\* messages_data.values(): per message the first chunk seen, in the order in
\* which the messages were first seen.
FirstChunks(g) ==
    LET firsts == { i \in 1..Len(g) :
                      \A j \in 1..(i - 1) : g[j].message_uuid # g[i].message_uuid }
    IN  [ k \in 1..Cardinality(firsts) |->
            g[CHOOSE i \in firsts : Cardinality({ j \in firsts : j < i }) = k - 1] ]

\* A message assembled from its chunks in the order of their arrival.
MessageOfArrival(g, f) ==
    LET chunks == SelectSeq(g, LAMBDA c : c.message_uuid = f.message_uuid)
    IN  [ message_uuid  |-> f.message_uuid,
          message_index |-> f.message_index,
          sender        |-> f.message_sender,
          content       |-> JoinSpace([ i \in 1..Len(chunks) |-> chunks[i].document ]),
          created_at    |-> f.message_created_at,
          chunk_count   |-> Len(chunks),
          category      |-> f.category ]

\* The ReconstructedMessage of the message first seen with chunk f: its
\* fields from f's metadata, its content from its chunks sorted by chunk_index.
MessageOf(g, f) ==
    LET chunks == StableSortBy(SelectSeq(g, LAMBDA c : c.message_uuid = f.message_uuid),
                               LAMBDA c : c.chunk_index)
    IN  [ message_uuid  |-> f.message_uuid,
          message_index |-> f.message_index,
          sender        |-> f.message_sender,
          content       |-> JoinSpace([ i \in 1..Len(chunks) |-> chunks[i].document ]),
          created_at    |-> f.message_created_at,
          chunk_count   |-> Len(chunks),
          category      |-> f.category ]

\* From the grouping loop to the return.  When no chunk carries a
\* message_uuid, conversation_metadata is still None and
\* conversation_metadata.get raises AttributeError, which the except branch
\* turns into "return None".
Assemble(conversation_uuid, chunks) ==
    LET g == Grouped(chunks)
        firsts == FirstChunks(g)
        reconstructed_messages ==
            StableSortBy([ k \in 1..Len(firsts) |-> MessageOf(g, firsts[k]) ],
                         LAMBDA m : m.message_index)
    IN  IF g = << >> THEN None
        ELSE [ type |-> "ReconstructedConversation",
               conversation_uuid |-> conversation_uuid,
               total_messages |-> Len(reconstructed_messages),
               total_chunks |-> Len(chunks),
               messages |-> reconstructed_messages,
               categories |-> { reconstructed_messages[i].category :
                                  i \in 1..Len(reconstructed_messages) } ]

\* _reconstruct_from_file: the chunks file of the stream processor, << >>
\* when there is none.
ReconstructFromFile(chunks_file, conversation_uuid) ==
    LET conversation_chunks ==
            SelectSeq(chunks_file, LAMBDA c : c.conversation_uuid = conversation_uuid)
    IN  IF conversation_chunks = << >> THEN None
        ELSE Assemble(conversation_uuid, conversation_chunks)

\* reconstruct_conversation; coll is the collection in the order in which the
\* store returns it.  Every chunk of the model has conversation_uuid in its
\* metadata, so has_conversation_uuid is false for the empty collection only.
ReconstructConversation(coll, chunks_file, conversation_uuid) ==
    IF coll = << >>
    THEN ReconstructFromFile(chunks_file, conversation_uuid)
    ELSE LET chunks == SelectSeq(coll, LAMBDA c : c.conversation_uuid = conversation_uuid)
         IN  IF chunks = << >> THEN None
             ELSE Assemble(conversation_uuid, chunks)

\* The chunks file the stream processor writes for conversation "c1": the
\* chunks of each message in order, each followed by its attachment chunks.
ChunksFile ==
    << StoredChunk("a", "m1", 0, 0, "human", "general"),
       StoredChunk("b", "m1", 0, 1, "human", "general"),
       StoredChunk("t", "m1", 0, 0, "attachment", "technical_development"),
       StoredChunk("c", "m2", 1, 0, "assistant", "general") >>

\* reconstructor.reconstruct_conversation(id) on a collection that holds some
\* chunks of the universe and returns them in some order.
ReconstructCall ==
    /\ q = NoQ
    /\ \E S \in { T \in SUBSET ChunkUniverse : Cardinality(T) <= MaxChunks },
          chunks_file \in { << >>, ChunksFile },
          conversation_uuid \in { "c1", "c9" } :
         \E coll \in Orders(S) :
           q' = [ op |-> "reconstruct", coll |-> coll, chunks_file |-> chunks_file,
                  conversation_uuid |-> conversation_uuid,
                  out |-> ReconstructConversation(coll, chunks_file,
                                                  conversation_uuid) ]
    /\ UNCHANGED << ingestVars, ck, cache, search_engine >>

----------------------------------------------------------------------------
(* Chunk ids of one ingestion run *)

\* The while loop of ConversationChunker._split_text_with_overlap with the
\* chunker's default chunk_size and overlap_size: the windows it cuts.
RECURSIVE SplitWindows(_, _)
SplitWindows(t, start) ==
    IF start + CHUNK_TEXT_SIZE >= t.len THEN << [a |-> start, b |-> t.len] >>
    ELSE LET best_break == SplitBestBreak(t, start, CHUNK_TEXT_SIZE)
         IN  << [a |-> start, b |-> best_break] >>
                 \o SplitWindows(t, SplitNextStart(start, best_break,
                                                   CHUNK_TEXT_OVERLAP))

\* _split_text_with_overlap
SplitTextWithOverlap(t) ==
    IF t.len <= CHUNK_TEXT_SIZE THEN << [a |-> 0, b |-> t.len] >>
    ELSE StripAll(t, SplitWindows(t, 0))

\* create_chunk_id: the md5 digest of the base string, held as the base
\* string (no two base strings of the model collide).
CreateChunkId(conversation_uuid, message_uuid, chunk_index) ==
    [ md5 |-> conversation_uuid \o "_" \o message_uuid \o "_"
                \o ToString(chunk_index) ]

\* The chunk ids of ConversationStreamProcessor.process_single_conversation,
\* in order: per message the ids of chunk_message, then those of
\* chunk_attachments.  A message without 'uuid' raises KeyError in the first
\* of the two that reads message['uuid']; the handler of the message loop
\* drops the message.
RECURSIVE StreamChunkIds(_, _)
StreamChunkIds(conversation_uuid, messages) ==
    IF messages = << >> THEN << >>
    ELSE LET message == Head(messages)
             text_chunks == IF IsBlank(message.text) THEN << >>
                            ELSE SplitTextWithOverlap(message.text)
             of(a) == IF IsBlank(a.extracted_content) THEN << >>
                      ELSE LET content_chunks == SplitTextWithOverlap(a.extracted_content)
                           IN  [ i \in 1..Len(content_chunks) |->
                                   CreateChunkId(conversation_uuid,
                                                 message.uuid \o "_att_" \o a.file_name,
                                                 i - 1) ]
             ids == [ i \in 1..Len(text_chunks) |->
                        CreateChunkId(conversation_uuid, message.uuid, i - 1) ]
                    \o Flatten([ k \in 1..Len(message.attachments) |->
                                   of(message.attachments[k]) ])
         IN  (IF message.uuid = "" THEN << >> ELSE ids)
                 \o StreamChunkIds(conversation_uuid, Tail(messages))

\* The conversations of a run: one or two messages, with or without an id
\* (the ids that are there differ), each with up to two attachments that may
\* share a file name.
IdConversations ==
    LET Attachments == { << >>, << "x" >>, << "x", "x" >>, << "x", "y" >> }
        Messages == { [ uuid |-> u, created_at |-> "t", text |-> t,
                        attachments |-> [ k \in 1..Len(names) |->
                                            [ file_name |-> names[k],
                                              extracted_content |-> TextShort ] ] ] :
                        u \in { "", "m1", "m2" },
                        t \in { TextLong, TextShort, TextBlank },
                        names \in Attachments }
    IN  { [ uuid |-> "c1", chat_messages |-> ms ] :
            ms \in { << m >> : m \in Messages }
                   \cup { << m, n >> : << m, n >> \in
                            { p \in Messages \X Messages :
                                p[1].uuid = "" \/ p[1].uuid # p[2].uuid } } }

\* One ingestion run over a conversation, by the pipeline
\* (_process_single_conversation, into an empty store) or by the stream
\* processor with the analyzer's chunker: the ids given to the chunks in
\* order, the number of chunks reported, and the number of documents a store
\* holds for them.
ChunkIdsCall ==
    /\ q = NoQ
    /\ \E conversation \in IdConversations, path \in { "pipeline", "stream" } :
         LET docs == ConversationDocs(conversation)
             ids == IF path = "pipeline"
                    THEN [ i \in 1..Len(docs) |-> docs[i].id ]
                    ELSE StreamChunkIds(conversation.uuid,
                                        conversation.chat_messages)
         IN  q' = [ op |-> "chunk_ids", path |-> path,
                    conversation |-> conversation, ids |-> ids,
                    chunks_created |-> Len(ids),
                    stored |-> IF path = "pipeline"
                               THEN Cardinality(CollectionAddAll({}, docs))
                               ELSE Cardinality(Range(ids)) ]
    /\ UNCHANGED << ingestVars, ck, cache, search_engine >>

----------------------------------------------------------------------------
(* The conversation side, one call per step *)

InitConversation ==
    /\ pc = "idle"
    /\ cur = NoCur
    /\ counts = NoCounts
    /\ results = NoResults
    /\ history = EmptyHistory
    /\ tracking_file = NoFile
    /\ collection = {}
    /\ last = NoLast
    /\ epoch = 0
    /\ saved_folders = {}
    /\ orphaned = {}
    /\ ck = NoCk
    /\ cache = NoCache
    /\ q = NoQ
    /\ search_engine = NoEngine

NextConversation ==
    \/ ReconstructCall
    \/ ChunkIdsCall
    \/ ReturnToCaller

SpecConversation == InitConversation /\ [][NextConversation]_vars

----------------------------------------------------------------------------
(* Ingestion followed by reconstruction *)

\* client.get_collection(name) as the reconstructor reads it.  The ingestion
\* pipeline writes the collection "personal_claude_conversations", with
\* metadata that has no message_uuid and no message_index; nothing of the
\* pipeline writes another collection.
ServerCollection(name) ==
    IF name = "personal_claude_conversations"
    THEN { [ document |-> d.document, conversation_uuid |-> d.conversation_uuid,
             message_uuid |-> "", message_index |-> 0,
             chunk_index |-> d.chunk_index, message_sender |-> "",
             message_created_at |-> d.message_created_at,
             category |-> "general" ] : d \in collection }
    ELSE {}

\* ConversationReconstructor().reconstruct_conversation(id) between two runs
\* of the pipeline: the reconstructor holds "claude_conversation_chats"; the
\* pipeline writes no chunks file.
ReconstructStoredCall ==
    /\ pc = "idle"
    /\ q = NoQ
    /\ \E conversation_uuid \in { "c1", "c2" } :
         \E coll \in Orders(ServerCollection("claude_conversation_chats")) :
           q' = [ op |-> "reconstruct_stored",
                  conversation_uuid |-> conversation_uuid,
                  out |-> ReconstructConversation(coll, << >>, conversation_uuid) ]
    /\ UNCHANGED << ingestVars, ck, cache, search_engine >>

NextRoundTrip ==
    \/ /\ q = NoQ
       /\ \E f \in Folders, force \in BOOLEAN, dry \in BOOLEAN :
            ProcessFolderBegin(f, force, dry)
    \/ ProcessProjectsStep
    \/ ProcessConversationsStep
    \/ MarkFolderImported
    \/ ReconstructStoredCall
    \/ ReturnToCaller

SpecRoundTrip == Init /\ [][NextRoundTrip]_vars

----------------------------------------------------------------------------
(* OptimizedSearchEngine.batch_search and the connection registry *)
(* One step per thread and per lock operation: the workers of the executor  *)
(* and the thread that runs optimize_performance interleave freely.         *)

MaxWorkers == 2

\* The value of a future of _single_search: the error dict of its except
\* branch, or the list _process_search_results returns for the n_results
\* nearest candidates (threshold 0.0, recency boost on by default).
SingleSearch(store, n_results, raises) ==
    IF raises THEN [ type |-> "dict", error |-> TRUE, results |-> << >> ]
    ELSE [ type |-> "list", error |-> FALSE,
           results |-> ProcessSearchResults(CollectionQuery(store, n_results),
                                            0, TRUE) ]

\* json.dumps(result, default=str) of a batch result: every SearchResult of
\* an entry is written as the string str() gives for it.
BatchJsonDumps(value) ==
    [ json |-> [ value EXCEPT !.batch_results =
                   [ query \in DOMAIN @ |->
                       [ @[query] EXCEPT !.results =
                           [ i \in DOMAIN @ |->
                               [type |-> "str", content |-> @[i].content] ] ] ] ] ]

\* The stores a batch is run against: two undated candidates.
BatchStores ==
    { s \in SearchStores :
        Len(s) = 2 /\ \A i \in DOMAIN s : ~s[i].created_at.given }

\* engine.batch_search(queries, n_results) enters the cached_search wrapper:
\* a hit returns the stored value, a miss starts the executor and submits one
\* future per member of queries.
BatchSearchCall ==
    /\ q = NoQ
    /\ search_engine.calls < MaxCalls
    /\ \E queries \in { << "alpha" >>, << "alpha", "leverage" >>,
                        << "alpha", "alpha" >> },
          n_results \in {1, 2}, store \in BatchStores :
         LET cache_key == GenerateKey("search:batch_search",
                                      << StrOfObject("engine1"), queries, n_results >>,
                                      << >>)
             cached_result == CacheGet(cache, cache_key)
             call == [ op |-> "batch_search", queries |-> queries,
                       n_results |-> n_results, store |-> store,
                       key |-> cache_key, hit |-> FALSE, phase |-> "running",
                       futures |-> [ i \in DOMAIN queries |->
                                       [ state |-> "pending", failed |-> FALSE,
                                         value |-> None ] ],
                       batch_results |-> << >>, value |-> None ]
         IN  IF cached_result # None
             THEN /\ q' = [call EXCEPT !.hit = TRUE, !.phase = "returned",
                                       !.value = cached_result]
                  /\ search_engine' = [search_engine EXCEPT !.calls = @ + 1]
             ELSE /\ q' = call
                  /\ search_engine' =
                       [search_engine EXCEPT
                          !.calls = @ + 1,
                          !.handed = {},
                          !.threads = [ w \in 1..MaxWorkers |->
                                          [pc |-> "idle", task |-> 0, conn |-> 0] ]]
    /\ UNCHANGED << ingestVars, ck, cache >>

\* A worker thread takes the oldest future of the work queue and enters
\* _single_search.
WorkerTake(w) ==
    /\ q.op = "batch_search"
    /\ q.phase = "running"
    /\ search_engine.threads[w].pc = "idle"
    /\ \E i \in DOMAIN q.futures :
         /\ q.futures[i].state = "pending"
         /\ \A j \in 1..(i - 1) : q.futures[j].state # "pending"
         /\ q' = [q EXCEPT !.futures[i].state = "running"]
         /\ search_engine' = [search_engine EXCEPT
                                !.threads[w].pc = "get_connection",
                                !.threads[w].task = i]
    /\ UNCHANGED << ingestVars, ck, cache >>

\* _get_connection: "with self._lock" is entered.
WorkerAcquire(w) ==
    /\ q.op = "batch_search"
    /\ q.phase = "running"
    /\ search_engine.threads[w].pc = "get_connection"
    /\ search_engine.lock = 0
    /\ search_engine' = [search_engine EXCEPT !.lock = w,
                                              !.threads[w].pc = "locked"]
    /\ UNCHANGED << ingestVars, ck, cache, q >>

\* _get_connection under the lock: the connection of this thread id, a new
\* one put into the pool, or (the new connection could not be made)
\* self.collection; leaving the with block releases the lock.
WorkerGetOrCreate(w) ==
    /\ q.op = "batch_search"
    /\ q.phase = "running"
    /\ search_engine.threads[w].pc = "locked"
    /\ \E create_raises \in BOOLEAN :
         LET known == w \in DOMAIN search_engine.pool
             connection == IF known THEN search_engine.pool[w]
                            ELSE IF create_raises THEN 0
                            ELSE search_engine.created + 1
         IN  /\ known => ~create_raises
             /\ search_engine' =
                  [search_engine EXCEPT
                     !.pool = IF known \/ create_raises THEN @
                              ELSE [ x \in DOMAIN @ \cup {w} |->
                                       IF x = w THEN connection ELSE @[x] ],
                     !.created = IF known \/ create_raises THEN @ ELSE @ + 1,
                     !.lock = 0,
                     !.handed = @ \cup { << connection, w >> },
                     !.threads[w].pc = "query",
                     !.threads[w].conn = connection]
    /\ UNCHANGED << ingestVars, ck, cache, q >>

\* _single_search: collection.query and _process_search_results, or the
\* except branch; the future is done.
WorkerQuery(w) ==
    /\ q.op = "batch_search"
    /\ q.phase = "running"
    /\ search_engine.threads[w].pc = "query"
    /\ \E raises \in BOOLEAN :
         LET i == search_engine.threads[w].task
         IN  q' = [q EXCEPT !.futures[i] =
                      [ state |-> "done", failed |-> raises,
                        value |-> SingleSearch(q.store, q.n_results, raises) ]]
    /\ search_engine' = [search_engine EXCEPT !.threads[w].pc = "idle",
                                              !.threads[w].task = 0]
    /\ UNCHANGED << ingestVars, ck, cache >>

\* The as_completed loop of batch_search: a finished future is put under
\* its query.
Collect ==
    /\ q.op = "batch_search"
    /\ q.phase = "running"
    /\ \E i \in DOMAIN q.futures :
         /\ q.futures[i].state = "done"
         /\ LET query == q.queries[i]
            IN  q' = [q EXCEPT
                        !.futures[i].state = "collected",
                        !.batch_results =
                            [ x \in DOMAIN @ \cup {query} |->
                                IF x = query THEN q.futures[i].value ELSE @[x] ]]
    /\ UNCHANGED << ingestVars, ck, cache, search_engine >>

\* The executor is shut down, batch_search returns its dict and the wrapper
\* calls cache.set on it.
BatchReturn ==
    /\ q.op = "batch_search"
    /\ q.phase = "running"
    /\ \A i \in DOMAIN q.futures : q.futures[i].state = "collected"
    /\ LET result == [ batch_results |-> q.batch_results,
                       total_queries |-> Len(q.queries),
                       parallel_processing |-> TRUE ]
           outcome == CacheSetOutcome(cache)
       IN  /\ q' = IF outcome = "AttributeError"
                   THEN [q EXCEPT !.phase = "raised"]
                   ELSE [q EXCEPT !.phase = "returned", !.value = result]
           /\ cache' = IF outcome = "stored"
                       THEN [cache EXCEPT
                               !.store = [ x \in DOMAIN @ \cup {q.key} |->
                                             IF x = q.key
                                             THEN BatchJsonDumps(result)
                                             ELSE @[x] ]]
                       ELSE cache
    /\ search_engine' = [search_engine EXCEPT !.threads = << >>]
    /\ UNCHANGED << ingestVars, ck >>

\* optimize_performance on another thread: clear_pattern on
\* "claude_api:*search*:*", which no generated key matches, and the pool is
\* cleared under the lock.
OptimizePerformance ==
    /\ search_engine.lock = 0
    /\ search_engine.pool # << >>
    /\ search_engine' = [search_engine EXCEPT !.pool = << >>]
    /\ UNCHANGED << ingestVars, ck, cache, q >>

InitBatch ==
    /\ pc = "idle"
    /\ cur = NoCur
    /\ counts = NoCounts
    /\ results = NoResults
    /\ history = EmptyHistory
    /\ tracking_file = NoFile
    /\ collection = {}
    /\ last = NoLast
    /\ epoch = 0
    /\ saved_folders = {}
    /\ orphaned = {}
    /\ ck = NoCk
    /\ \E available \in BOOLEAN, up \in BOOLEAN :
         cache = [NoCache EXCEPT !.pc = "up", !.is_available = available,
                                 !.reachable = up]
    /\ q = NoQ
    /\ search_engine = NoEngine

NextBatch ==
    \/ BatchSearchCall
    \/ \E w \in 1..MaxWorkers : WorkerTake(w)
    \/ \E w \in 1..MaxWorkers : WorkerAcquire(w)
    \/ \E w \in 1..MaxWorkers : WorkerGetOrCreate(w)
    \/ \E w \in 1..MaxWorkers : WorkerQuery(w)
    \/ Collect
    \/ BatchReturn
    \/ OptimizePerformance
    \/ /\ q.op = "batch_search"
       /\ q.phase # "running"
       /\ ReturnToCaller

SpecBatch == InitBatch /\ [][NextBatch]_vars

----------------------------------------------------------------------------
(* Properties of the ingestion pipeline *)

\* C1: a process_folder call with force_reimport = false for a folder the
\* ledger holds returns the skipped report and changes neither the store, the
\* ledger nor the ledger file; a completed save of the ledger holds the folder
\* just marked, and a restart that loads a completely saved ledger file holds
\* every folder of that file, so the same is true in the next process.
C1_IdempotentFolderSkip ==
    [][ /\ ( /\ pc = "idle"
             /\ last'.op = "process_folder"
             /\ ~last'.force
             /\ last'.id \in history.imports )
           => ( /\ last'.result = "skipped"
                /\ pc' = "idle"
                /\ collection' = collection
                /\ history' = history
                /\ tracking_file' = tracking_file )
        /\ (pc = "mark" /\ last'.op = "mark" /\ last'.result = "saved")
           => ( /\ cur.folder \in history'.imports
                /\ cur.folder \in tracking_file'.imports
                /\ tracking_file'.state = "complete" )
        /\ (pc = "down" /\ pc' = "idle" /\ tracking_file.state = "complete")
           => history'.imports = tracking_file.imports
      ]_vars

\* C1 witness: in a restarted process, a folder imported by an earlier process
\* is skipped while the store holds its documents.
C1_Witness ==
    /\ epoch >= 1
    /\ last.op = "process_folder"
    /\ last.result = "skipped"
    /\ last.id \in history.imports
    /\ collection # {}

\* The documents a record yields when every add succeeds.
AllConversationDocs(u) ==
    UNION { Range(ConversationDocs(FolderContents(f).conversations[i])) :
              << f, i >> \in { << g, j >> \in Folders \X (1..2) :
                                 /\ j <= Len(FolderContents(g).conversations)
                                 /\ FolderContents(g).conversations[j].uuid = u } }

AllProjectDocs(u) ==
    UNION { UNION { Range(ProjectConversationDocs(FolderContents(f).projects[i], k)) :
                      k \in 1..Len(FolderContents(f).projects[i].chat_conversations) } :
              << f, i >> \in { << g, j >> \in Folders \X (1..2) :
                                 /\ j <= Len(FolderContents(g).projects)
                                 /\ FolderContents(g).projects[j].uuid = u } }

\* C2 (as claimed): every conversation id and every project id in the ledger
\* has all chunks of all its non-empty messages in the store.
C2_LedgerImpliesStored ==
    /\ \A u \in history.conversation_uuids : AllConversationDocs(u) \subseteq collection
    /\ \A u \in history.project_uuids : AllProjectDocs(u) \subseteq collection

\* C3 (as claimed): with a ledger loaded from a file that mark_folder_imported
\* saved, a record whose chunks were all written is in the ledger afterwards
\* and is counted as processed and not as failed.
C3_ReloadedLedgerAcceptsIds ==
    ( /\ history.kind = "list"
      /\ last.op \in {"conversation", "project"}
      /\ last.attempted
      /\ last.wrote_all )
    => ( /\ last.id \in history.conversation_uuids \cup history.project_uuids
         /\ last.counted = {"processed"} )

\* C4 (as claimed): a finished file loop has counted each of its N records in
\* exactly one of processed, skipped, failed.
C4_EveryRecordCounted ==
    \A r \in {results.projects_result, results.conversations_result} :
        r.done => r.processed + r.skipped + r.failed = r.n

\* C5: a process_folder call with dry_run = true returns at once (the dry-run
\* report, or the skipped report) and changes neither the store, the ledger
\* nor the ledger file.
C5_DryRunWritesNothing ==
    [][ ( /\ pc = "idle"
          /\ last'.op = "process_folder"
          /\ last'.dry )
        => ( /\ last'.result \in {"dry_run", "skipped"}
             /\ pc' = "idle"
             /\ collection' = collection
             /\ history' = history
             /\ tracking_file' = tracking_file )
      ]_vars

\* C5 witness: a dry run over a folder with new records, with a ledger that
\* already holds a folder.
C5_Witness ==
    /\ last.op = "process_folder"
    /\ last.dry
    /\ last.result = "dry_run"
    /\ last.new_records > 0
    /\ history.imports # {}
    /\ collection # {}

\* C6 (as claimed): after a crash inside a save of the ledger, the load of the
\* next process still holds every folder name that an earlier, completed save
\* had persisted (the file holds the complete previous or the complete new
\* content).
C6_AtomicLedgerSave ==
    (pc = "idle" /\ last.op = "restart" /\ last.result = "in_save")
    => saved_folders \subseteq history.imports

----------------------------------------------------------------------------
(* Properties of the chunkers *)

\* C8 (as claimed): for chunk_size > overlap_size >= 0, every window of
\* _split_text_with_overlap starts at or before the cut of the window before
\* it, and every character of the text that is not whitespace lies in some
\* returned chunk.
C8_SplitCoversText ==
    (ck.algo = "split" /\ Returned)
    => ( /\ \A i \in 2..Len(ck.windows) : ck.windows[i].a <= ck.windows[i - 1].b
         /\ \A p \in 0..(ck.text.len - 1) :
              p \notin ck.text.spaces
              => \E i \in 1..Len(Chunks) : Chunks[i].a <= p /\ p < Chunks[i].b )

\* C9 (as claimed): every chunk returned by _split_text_with_overlap is at
\* most chunk_size characters long and every chunk returned by chunk_text is
\* at most 1200 characters long.
C9_ChunkLengthBounded ==
    (ck.algo \in {"split", "chunk_text"} /\ Returned)
    => \A i \in 1..Len(Chunks) : Chunks[i].b - Chunks[i].a <= ck.size

\* C10: in each iteration of the three chunking loops the start position does
\* not go back and, when the loop goes on, strictly increases; the window an
\* iteration emits was not emitted before; and every call returns.
C10_ChunkingTerminates ==
    /\ [][ (ck.pc = "loop" /\ ck' # ck)
           => ( /\ ck'.start >= ck.start
                /\ ck'.pc = "loop" => ck'.start > ck.start
                /\ Len(ck'.windows) = Len(ck.windows) + 1
                /\ \A i \in 1..Len(ck.windows) :
                     ck.windows[i] # ck'.windows[Len(ck'.windows)] )
         ]_vars
    /\ <>Returned

\* C10 witness: _split_text_with_overlap has returned after three or more
\* iterations with overlap_size = chunk_size - 1.
C10_Witness ==
    /\ ck.algo = "split"
    /\ ck.pc = "done"
    /\ ck.size >= 2
    /\ ck.overlap = ck.size - 1
    /\ Len(ck.windows) >= 3

----------------------------------------------------------------------------
(* Properties of the categorizers *)

\* C11 (as claimed): categorize returns the label of the reference rule: the
\* score of a category is the number of its single-word keywords found plus 2
\* for each of its multi-word phrases found, the highest score wins, a tie
\* goes to the category declared first, and all scores zero gives 'general'.
C11_CategorizeMatchesReference ==
    q.op = "categorize"
    => LET ref == [ i \in 1..Len(CATEGORIES) |->
                      LET k == CATEGORIES[i].keywords
                      IN  Cardinality({ j \in 1..Len(k) :
                                          /\ k[j] \notin MultiWordKeywords
                                          /\ KeywordIn(k[j], q.text) })
                          + 2 * Cardinality({ j \in 1..Len(k) :
                                                /\ k[j] \in MultiWordKeywords
                                                /\ KeywordIn(k[j], q.text) }) ]
           best == CHOOSE i \in DOMAIN ref :
                       /\ \A j \in DOMAIN ref : ref[j] <= ref[i]
                       /\ \A j \in DOMAIN ref : j < i => ref[j] < ref[i]
       IN  q.out = IF \A i \in DOMAIN ref : ref[i] = 0
                   THEN "general"
                   ELSE CATEGORIES[best].name

\* C12 (as claimed): every category label the ingestion pipeline writes onto
\* a chunk is one of the category filter values of get_filter_options and of
\* the claude_search tool's enum.
C12_IngestedLabelInCategorySet ==
    q.op = "categorize_content"
    => (q.out \in FilterCategories /\ q.out \in ToolCategoryEnum)

----------------------------------------------------------------------------
(* Properties of the cache layer *)

\* C13 (as claimed): a call that finds its entry in the cache does not run
\* the compute function and returns a value equal to the value that the call
\* which stored the entry returned.
C13_HitReturnsComputedValue ==
    (q.op = "cached_search" /\ q.hit)
    => (~q.computed /\ q.value = cache.first[q.key])

\* C14 (as claimed): whatever the state of the cache store, a call of a
\* cached operation that misses invokes compute and returns its value, and
\* no exception of the cache layer reaches the caller.
C14_CacheFailureNeverFailsCaller ==
    (q.op = "cached_search" /\ ~q.hit)
    => (q.computed /\ q.raised = "none" /\ q.value = q.fresh)

\* C15 (as claimed): after invalidate_search_cache() has returned with the
\* cache store reachable, no entry stored by the cached_search wrapper is
\* left in the cache, and a call whose entry was in the cache before the
\* invalidation is a miss.
C15_InvalidateRemovesSearchEntries ==
    /\ (q.op = "invalidate_search_cache" /\ cache.is_available /\ cache.reachable)
       => DOMAIN cache.store = {}
    /\ (q.op = "cached_search" /\ q.after_invalidate) => ~q.hit

\* C16 (as claimed): the cache key depends on the operation name and the
\* argument values only: calls with the same query (and n_results = 10) get
\* the same key whatever the engine object and the call form, and calls
\* with different queries get different keys.
C16_KeyDependsOnArgumentValuesOnly ==
    q.op = "cached_search"
    => \A engine \in Engines, form \in CallForms, query \in Queries :
         LET a == WrapperArgs(engine, form, query)
         IN  (query = q.query)
             <=> (GenerateKey("search:search", a.args, a.kwargs) = q.key)

----------------------------------------------------------------------------
(* Properties of search *)

\* C17 (as claimed): OptimizedSearchEngine.search returns at most n_results
\* results.
C17_AtMostNResults ==
    q.op = "search" => Len(q.out.results) <= q.n_results

\* C18 (as claimed): a claude_search tool call returns at most 50 results,
\* whatever n_results is requested and on both entry paths.
C18_ToolResultsClamped ==
    q.op = "claude_search" => Len(q.out.results) <= MAX_TOOL_RESULTS

\* C19 (as claimed): with enable_recency_boost, of two returned candidates
\* with equal distance (equal raw similarity) the one with the more recent
\* created_at has a final score not below the other's and does not come
\* after it with a lower score.
C19_RecentNeverBelowOlder ==
    (q.op = "search" /\ q.enable_recency_boost /\ ~q.out.error)
    => \A i, j \in 1..Len(q.out.results) :
         LET r == q.out.results[i]
             o == q.out.results[j]
             dist(x) == (CHOOSE k \in 1..Len(q.store) : q.store[k].doc = x.content)
         IN  ( /\ r.created_at.given /\ o.created_at.given
               /\ r.created_at.days < o.created_at.days
               /\ q.store[dist(r)].distance = q.store[dist(o)].distance )
             => ( /\ r.relevance_score >= o.relevance_score
                  /\ (j < i => r.relevance_score = o.relevance_score) )

\* C20 (as claimed): when the store query of some but not all variants (or
\* collections) fails, search_unified and OptimizedSearchEngine.search return
\* no error but the ranked results of the queries that succeeded.
C20_PartialFailureKeepsResults ==
    ( /\ q.op \in {"search", "claude_search"}
      /\ q.failing # {}
      /\ Cardinality(q.failing) < q.variants
      /\ q.partial # << >> )
    => (~q.out.error /\ q.out.results = q.partial)

----------------------------------------------------------------------------
(* Properties of retry, reconstruction and batch search *)

\* C23: whatever the order in which the store returns the chunks, a
\* reconstructed conversation has one message per message_uuid of its chunks,
\* the messages are in ascending message_index order, and the content of each
\* message is the documents of its chunks joined by single spaces in an
\* ascending chunk_index order.
C23_ReconstructOrdered ==
    (q.op = "reconstruct" /\ q.out # None)
    => LET ms == q.out.messages
           source == IF q.coll = << >> THEN q.chunks_file ELSE q.coll
           mine == { c \in Range(source) :
                       c.conversation_uuid = q.conversation_uuid }
       IN  /\ { ms[i].message_uuid : i \in 1..Len(ms) }
                = { c.message_uuid : c \in mine } \ {""}
           /\ \A i, j \in 1..Len(ms) :
                 i < j => /\ ms[i].message_uuid # ms[j].message_uuid
                          /\ ms[i].message_index <= ms[j].message_index
           /\ \A i \in 1..Len(ms) :
                 \E p \in Orders({ c \in mine : c.message_uuid = ms[i].message_uuid }) :
                   /\ \A k \in 1..(Len(p) - 1) : p[k].chunk_index <= p[k + 1].chunk_index
                   /\ ms[i].content = JoinSpace([ k \in 1..Len(p) |-> p[k].document ])

\* C23 witness: the store returned a later message first and a message's
\* second chunk before its first, and the conversation has two messages, the
\* first with its two chunks in order.
C23_Witness ==
    /\ q.op = "reconstruct"
    /\ q.out # None
    /\ Len(q.coll) = 3
    /\ q.coll[1].message_index > q.coll[2].message_index
    /\ q.coll[2].chunk_index > q.coll[3].chunk_index
    /\ Len(q.out.messages) = 2
    /\ q.out.messages[1].content = "a b"

\* C24 (as claimed): when chunks matched the conversation and none of them can
\* be grouped into a message, the result is neither the not-found answer nor
\* a conversation without messages; when chunks can be grouped the result is
\* a conversation with at least one message.
C24_AnomalyDistinctFromNotFound ==
    q.op = "reconstruct"
    => LET source == IF q.coll = << >> THEN q.chunks_file ELSE q.coll
           matched == SelectSeq(source, LAMBDA c :
                                  c.conversation_uuid = q.conversation_uuid)
       IN  /\ (matched # << >> /\ Grouped(matched) = << >>)
                => (q.out # None /\ q.out.type # "ReconstructedConversation")
           /\ Grouped(matched) # << >>
                => (q.out # None /\ q.out.total_messages >= 1)

\* C25 (as claimed): for a conversation that the pipeline has imported (its
\* id is in the ledger), reconstruct_conversation(id) does not answer
\* not-found and returns the conversation's non-empty messages in their
\* original order.
C25_IngestReconstructRoundTrip ==
    ( /\ q.op = "reconstruct_stored"
      /\ q.conversation_uuid \in history.conversation_uuids )
    => /\ q.out # None
       /\ LET conversation == IF q.conversation_uuid = "c1" THEN ConvC1 ELSE ConvC2
               expected == SelectSeq(conversation.chat_messages,
                                     LAMBDA m : ~IsBlank(m.text))
           IN  [ i \in 1..Len(q.out.messages) |-> q.out.messages[i].message_uuid ]
                 = [ i \in 1..Len(expected) |-> expected[i].uuid ]

\* C27 (as claimed): the reconstruction of a chunk set is the same for every
\* order in which the store returns the set.
C27_OrderIndependent ==
    q.op = "reconstruct"
    => \A other \in Orders(Range(q.coll)) :
         LET o == ReconstructConversation(other, q.chunks_file, q.conversation_uuid)
         IN  (o = None) = (q.out = None)
             /\ (o # None => o.messages = q.out.messages)

\* C30 (as claimed): a call of search through the cache wrapper that ended in
\* the error branch leaves no cache entry under its key, and no later call is
\* served an error result from the cache.
C30_FailedSearchNotCached ==
    q.op = "cached_search"
    => /\ (q.computed /\ "error" \in DOMAIN q.fresh)
            => q.key \notin DOMAIN cache.store
       /\ q.hit => "error" \notin DOMAIN q.value

\* C28 (as claimed): the chunks of one ingestion run have pairwise distinct
\* chunk ids, and the number of chunks reported as created is the number of
\* documents the store gained.
C28_ChunkIdsDistinct ==
    q.op = "chunk_ids"
    => /\ \A i, j \in 1..Len(q.ids) : i # j => q.ids[i] # q.ids[j]
       /\ q.chunks_created = q.stored

\* C29 (as claimed): a process_folder run that ends with a failed record in
\* one of its two file reports does not record the folder as imported, so
\* that a later run with force_reimport = false processes the folder again.
C29_FailedFolderNotMarked ==
    [][ ( /\ pc = "mark"
          /\ pc' = "idle"
          /\ \/ results.projects_result.failed > 0
             \/ results.conversations_result.failed > 0 )
        => cur.folder \notin history'.imports
      ]_vars

\* C21: a batch_search call that computed its result has returned, its
\* result map has exactly the distinct queries of the input as keys, every
\* member query that failed has the error entry under its query and every
\* member that did not fail has its own result there.
C21_FailedMemberIsolated ==
    (q.op = "batch_search" /\ q.phase # "running" /\ ~q.hit) =>
        /\ q.phase = "returned"
        /\ DOMAIN q.value.batch_results = Range(q.queries)
        /\ \A i \in DOMAIN q.queries :
             q.value.batch_results[q.queries[i]] =
                 SingleSearch(q.store, q.n_results, q.futures[i].failed)

\* C22: the entry of a query in a computed batch result is the result list
\* of search(query, n_results) with default options on the same store.
C22_BatchEntryEqualsSearch ==
    (q.op = "batch_search" /\ q.phase = "returned" /\ ~q.hit) =>
        \A query \in DOMAIN q.value.batch_results :
            q.value.batch_results[query].type = "list" =>
                q.value.batch_results[query].results =
                    OptimizedSearch(q.store, query, q.n_results, 0, TRUE, TRUE,
                                    {}).results

\* C26: the pool holds no connection under two thread ids, no connection has
\* been handed to two different workers, and a worker that is past
\* _get_connection does not hold the lock.
C26_ConnectionRegistryExclusive ==
    /\ \A v, w \in DOMAIN search_engine.pool :
         search_engine.pool[v] = search_engine.pool[w] => v = w
    /\ \A a, b \in search_engine.handed : a[1] = b[1] => a[2] = b[2]
    /\ \A w \in DOMAIN search_engine.threads :
         search_engine.threads[w].pc \in {"query", "idle"} =>
             search_engine.lock # w

====
